---- MODULE Spec2Model ----
(***************************************************************************)
(* Model of src/src/App.tsx: the multi-track audio editor component.       *)
(*                                                                         *)
(* React state: tracks (useState), isPlaying, currentTime, and the ref     *)
(* wavesurferRefs.  setTracks(updater) is applied to the registry in issue *)
(* order; the value a handler closes over is the value of the last render. *)
(* Click and change handlers are discrete events, whose updates React      *)
(* flushes before the next event, so their closures hold current field     *)
(* values; a setTracks issued from the async upload continuation is        *)
(* rendered later by a separate Render step, so the closure may lack the   *)
(* most recently appended tracks (the first nRendered tracks are visible). *)
(*                                                                         *)
(* Audio nodes (Tone.Player / Tone.Panner / Tone.PitchShift) are objects   *)
(* shared by reference between all copies of a track record: they live in  *)
(* the heap `nodes`, and a track holds the reference.                      *)
(* Pan values are held in tenths (the slider's step is 0.1).               *)
(* Tone.Transport and Tone.Player are library objects: start() runs the     *)
(* clock on from where it stands, pause() freezes it.                      *)
(***************************************************************************)
EXTENDS Integers, Sequences, FiniteSets, TLC

\* ---------------------------------------------------------------- bounds
\* handleFileUpload invocations
MaxUploads == 2
\* files selected over all upload actions
MaxFiles == 2
\* files whose decode fails
MaxCorrupt == 1
\* the Date.now() clock runs 0..MaxNow
MaxNow == 1
\* Tone.Transport.seconds runs 0..MaxSeconds
MaxSeconds == 2
\* mute / solo / volume / pan / pitch events
MaxOps == 2

\* ---------------------------------------------------- program constants
\* The sliders' ranges; pan in tenths.
VolumeMin == -60
VolumeMax == 0
PanMin == -10
PanMax == 10
PitchMin == -12
PitchMax == 12

\* Values a caller may hand to the three setters (in and out of range).
VolumeInputs == {-30, 10}
PanInputs == {-50, 5}
PitchInputs == {7, 13}

UnknownId == "track-unknown"

VARIABLES
  tracks,          \* useState<Track[]>: the registry, all updaters applied
  nRendered,       \* how many tracks the last render (the closures) saw
  isPlaying,       \* useState(false)
  currentTime,     \* useState(0)
  wavesurferRefs,  \* useRef: track id -> index into waveSurfers
  waveSurfers,     \* WaveSurfer instances created, in creation order
  nodes,           \* audio nodes by reference
  transport,       \* Tone.Transport: [state, seconds]
  now,             \* Date.now()
  uploads,         \* handleFileUpload invocations: [first, n, i, pc]
  nextFile,        \* number of File objects selected so far
  corrupt,         \* files whose decodeAudioData rejects
  ops,             \* track handler events so far
  muteBeforeSolo,  \* history: mute flags when the first solo was turned on;
                   \* <<>> if none, or after a handleMute or an append
  pausedAt         \* history: Transport.seconds at the last pause, -1 if none

vars == <<tracks, nRendered, isPlaying, currentTime, wavesurferRefs,
          waveSurfers, nodes, transport, now, uploads, nextFile, corrupt,
          ops, muteBeforeSolo, pausedAt>>

\* ---------------------------------------------------------------- helpers
\* Array.prototype.some(track => track.solo)
hasSoloTrack(ts) == \E k \in 1..Len(ts) : ts[k].solo

\* Array.prototype.find(t => t.id === trackId): index of the first match, 0 if none
Find(ts, trackId) ==
  IF \E k \in 1..Len(ts) : ts[k].id = trackId
    THEN CHOOSE k \in 1..Len(ts) :
           /\ ts[k].id = trackId
           /\ \A j \in 1..(k - 1) : ts[j].id # trackId
    ELSE 0

\* The tracks array of the last render, which the handlers close over.
rendered == SubSeq(tracks, 1, nRendered)

\* `track-${Date.now()}-${i}`
TrackId(t, i) == "track-" \o ToString(t) \o "-" \o ToString(i)

\* new Tone.Player(audioBuffer), new Tone.Panner(0), new Tone.PitchShift(0)
NewNode == [mute |-> FALSE, volume |-> 0, pan |-> 0, pitch |-> 0, started |-> FALSE]

newTrack(f, t, i) ==
  [id |-> TrackId(t, i), blob |-> f, player |-> f,
   muted |-> FALSE, solo |-> FALSE, volume |-> 0, pan |-> 0, pitch |-> 0]

\* useEffect(..., [tracks]): one WaveSurfer per track id not yet in the ref.
\* Yields <<wavesurferRefs, waveSurfers>> after visiting ts[k..].
RECURSIVE tracksEffect(_, _, _, _)
tracksEffect(ts, k, refs, ws) ==
  IF k > Len(ts) THEN <<refs, ws>>
  ELSE IF ts[k].id \in DOMAIN refs
    THEN tracksEffect(ts, k + 1, refs, ws)
    ELSE tracksEffect(ts, k + 1,
           refs @@ (ts[k].id :> (Len(ws) + 1)),
           Append(ws, [container |-> ts[k].id, blob |-> ts[k].blob]))

\* A render of the first n tracks followed by the tracks effect.
Commit(ts, n) ==
  LET r == tracksEffect(SubSeq(ts, 1, n), 1, wavesurferRefs, waveSurfers)
  IN /\ nRendered' = n
     /\ wavesurferRefs' = r[1]
     /\ waveSurfers' = r[2]

\* ------------------------------------------------------------------- Init
Init ==
  /\ tracks = <<>>
  /\ nRendered = 0
  /\ isPlaying = FALSE
  /\ currentTime = 0
  /\ wavesurferRefs = <<>>
  /\ waveSurfers = <<>>
  /\ nodes = <<>>
  /\ transport = [state |-> "stopped", seconds |-> 0]
  /\ now = 0
  /\ uploads = <<>>
  /\ nextFile = 0
  /\ corrupt = {}
  /\ ops = 0
  /\ muteBeforeSolo = <<>>
  /\ pausedAt = -1

\* --------------------------------------------------------- handleFileUpload
\* The synchronous head of handleFileUpload: reads event.target.files and
\* runs to the first await (file.arrayBuffer()) or, with no file, to the end.
handleFileUpload(n, bad) ==
  /\ Len(uploads) < MaxUploads
  /\ nextFile + n <= MaxFiles
  /\ bad \subseteq (nextFile + 1)..(nextFile + n)
  /\ Cardinality(corrupt \union bad) <= MaxCorrupt
  /\ uploads' = Append(uploads,
       [first |-> nextFile, n |-> n, i |-> 0,
        pc |-> IF n = 0 THEN "done" ELSE "arrayBuffer"])
  /\ nextFile' = nextFile + n
  /\ corrupt' = corrupt \union bad
  /\ UNCHANGED <<tracks, nRendered, isPlaying, currentTime, wavesurferRefs,
                 waveSurfers, nodes, transport, now, ops, muteBeforeSolo,
                 pausedAt>>

\* arrayBufferResolved going on to the next file without decoding this one
arrayBufferResolved_skip(u) ==
  /\ u \in 1..Len(uploads)
  /\ uploads[u].pc = "arrayBuffer"
  /\ uploads' = [uploads EXCEPT
       ![u].i = uploads[u].i + 1,
       ![u].pc = IF uploads[u].i + 1 < uploads[u].n THEN "arrayBuffer" ELSE "done"]
  /\ UNCHANGED <<tracks, nRendered, isPlaying, currentTime, wavesurferRefs,
                 waveSurfers, nodes, transport, now, nextFile, corrupt, ops,
                 muteBeforeSolo,
                 pausedAt>>

\* await file.arrayBuffer() resolves; the continuation calls decodeAudioData
\* and suspends again.
arrayBufferResolved(u) ==
  /\ u \in 1..Len(uploads)
  /\ uploads[u].pc = "arrayBuffer"
  /\ uploads' = [uploads EXCEPT ![u].pc = "decode"]
  /\ UNCHANGED <<tracks, nRendered, isPlaying, currentTime, wavesurferRefs,
                 waveSurfers, nodes, transport, now, nextFile, corrupt, ops,
                 muteBeforeSolo,
                 pausedAt>>

\* decodeResolved with the new track put in front of the registry
decodeResolved_prepend(u) ==
  /\ u \in 1..Len(uploads)
  /\ uploads[u].pc = "decode"
  /\ LET up == uploads[u]
         f == up.first + up.i + 1
     IN /\ f \notin corrupt
        /\ nodes' = nodes @@ (f :> NewNode)
        /\ tracks' = <<newTrack(f, now, up.i)>> \o tracks
        /\ uploads' = [uploads EXCEPT
             ![u].i = up.i + 1,
             ![u].pc = IF up.i + 1 < up.n THEN "arrayBuffer" ELSE "done"]
  /\ muteBeforeSolo' = <<>>
  /\ UNCHANGED <<nRendered, isPlaying, currentTime, wavesurferRefs,
                 waveSurfers, transport, now, nextFile, corrupt, ops,
                 pausedAt>>

\* await decodeAudioData(arrayBuffer) resolves: the nodes and the track are
\* built, setTracks appends the track, and the loop goes on to the next file.
decodeResolved(u) ==
  /\ u \in 1..Len(uploads)
  /\ uploads[u].pc = "decode"
  /\ LET up == uploads[u]
         f == up.first + up.i + 1
     IN /\ f \notin corrupt
        /\ nodes' = nodes @@ (f :> NewNode)
        /\ tracks' = Append(tracks, newTrack(f, now, up.i))
        /\ uploads' = [uploads EXCEPT
             ![u].i = up.i + 1,
             ![u].pc = IF up.i + 1 < up.n THEN "arrayBuffer" ELSE "done"]
  /\ muteBeforeSolo' = <<>>
  /\ UNCHANGED <<nRendered, isPlaying, currentTime, wavesurferRefs,
                 waveSurfers, transport, now, nextFile, corrupt, ops,
                 pausedAt>>

\* decodeRejected with the track built and appended before the failure shows
decodeRejected_partial(u) ==
  /\ u \in 1..Len(uploads)
  /\ uploads[u].pc = "decode"
  /\ LET up == uploads[u]
         f == up.first + up.i + 1
     IN /\ f \in corrupt
        /\ nodes' = nodes @@ (f :> NewNode)
        /\ tracks' = Append(tracks, newTrack(f, now, up.i))
  /\ uploads' = [uploads EXCEPT ![u].pc = "rejected"]
  /\ UNCHANGED <<nRendered, isPlaying, currentTime, wavesurferRefs,
                 waveSurfers, transport, now, nextFile, corrupt, ops,
                 muteBeforeSolo, pausedAt>>

\* await decodeAudioData(arrayBuffer) rejects: nothing catches it, so the
\* async function ends with a rejected promise and the loop is abandoned.
decodeRejected(u) ==
  /\ u \in 1..Len(uploads)
  /\ uploads[u].pc = "decode"
  /\ (uploads[u].first + uploads[u].i + 1) \in corrupt
  /\ uploads' = [uploads EXCEPT ![u].pc = "rejected"]
  /\ UNCHANGED <<tracks, nRendered, isPlaying, currentTime, wavesurferRefs,
                 waveSurfers, nodes, transport, now, nextFile, corrupt, ops,
                 muteBeforeSolo,
                 pausedAt>>

\* React renders the tracks appended by the upload continuation and runs the
\* tracks effect.
Render ==
  /\ nRendered < Len(tracks)
  /\ Commit(tracks, Len(tracks))
  /\ UNCHANGED <<tracks, isPlaying, currentTime, nodes, transport, now,
                 uploads, nextFile, corrupt, ops, muteBeforeSolo,
                 pausedAt>>

\* Date.now() moves on.
Tick ==
  /\ now < MaxNow
  /\ now' = now + 1
  /\ UNCHANGED <<tracks, nRendered, isPlaying, currentTime, wavesurferRefs,
                 waveSurfers, nodes, transport, uploads, nextFile, corrupt,
                 ops, muteBeforeSolo, pausedAt>>

\* ------------------------------------------------------------ Tone.Transport
\* Tone.Transport.start(): starts the clock where it stands (0 when stopped,
\* the frozen position when paused); no effect on a started clock.
TransportStart(tr) == [tr EXCEPT !.state = "started"]

\* Tone.Transport.pause(): freezes a started clock; no effect otherwise.
TransportPause(tr) ==
  IF tr.state = "started" THEN [tr EXCEPT !.state = "paused"] ELSE tr

\* tracks.forEach(track => track.player.start()) over the closure's tracks
StartPlayers(ns, ts) ==
  [f \in DOMAIN ns |->
     IF \E k \in 1..Len(ts) : ts[k].player = f
       THEN [ns[f] EXCEPT !.started = TRUE]
       ELSE ns[f]]

\* togglePlayPause with Tone.Transport.stop() in place of pause()
togglePlayPause_stop ==
  /\ IF isPlaying
       THEN /\ transport' = [state |-> "stopped", seconds |-> 0]
            /\ nodes' = nodes
       ELSE /\ transport' = TransportStart(transport)
            /\ nodes' = StartPlayers(nodes, rendered)
  /\ isPlaying' = ~isPlaying
  /\ pausedAt' = IF isPlaying /\ transport.state = "started"
                    THEN transport.seconds
                    ELSE pausedAt
  /\ UNCHANGED <<tracks, nRendered, currentTime, wavesurferRefs, waveSurfers,
                 now, uploads, nextFile, corrupt, ops, muteBeforeSolo>>

\* togglePlayPause with setIsPlaying(true) in place of setIsPlaying(!isPlaying)
togglePlayPause_alwaysTrue ==
  /\ IF isPlaying
       THEN /\ transport' = TransportPause(transport)
            /\ nodes' = nodes
       ELSE /\ transport' = TransportStart(transport)
            /\ nodes' = StartPlayers(nodes, rendered)
  /\ isPlaying' = TRUE
  /\ pausedAt' = IF isPlaying /\ transport.state = "started"
                    THEN transport.seconds
                    ELSE pausedAt
  /\ UNCHANGED <<tracks, nRendered, currentTime, wavesurferRefs, waveSurfers,
                 now, uploads, nextFile, corrupt, ops, muteBeforeSolo>>

togglePlayPause ==
  /\ IF isPlaying
       THEN /\ transport' = TransportPause(transport)
            /\ nodes' = nodes
       ELSE /\ transport' = TransportStart(transport)
            /\ nodes' = StartPlayers(nodes, rendered)
  /\ isPlaying' = ~isPlaying
  /\ pausedAt' = IF isPlaying /\ transport.state = "started"
                    THEN transport.seconds
                    ELSE pausedAt
  /\ UNCHANGED <<tracks, nRendered, currentTime, wavesurferRefs, waveSurfers,
                 now, uploads, nextFile, corrupt, ops, muteBeforeSolo>>

\* The audio clock runs while the transport is started.
ClockAdvance ==
  /\ transport.state = "started"
  /\ transport.seconds < MaxSeconds
  /\ transport' = [transport EXCEPT !.seconds = @ + 1]
  /\ UNCHANGED <<tracks, nRendered, isPlaying, currentTime, wavesurferRefs,
                 waveSurfers, nodes, now, uploads, nextFile, corrupt, ops,
                 muteBeforeSolo,
                 pausedAt>>

\* intervalTick counting its own firings instead of reading the transport
intervalTick_count ==
  /\ currentTime <= MaxSeconds
  /\ currentTime' = currentTime + 1
  /\ UNCHANGED <<tracks, nRendered, isPlaying, wavesurferRefs, waveSurfers,
                 nodes, transport, now, uploads, nextFile, corrupt, ops,
                 muteBeforeSolo,
                 pausedAt>>

\* setInterval(() => setCurrentTime(Tone.Transport.seconds), 100)
intervalTick ==
  /\ currentTime' = transport.seconds
  /\ UNCHANGED <<tracks, nRendered, isPlaying, wavesurferRefs, waveSurfers,
                 nodes, transport, now, uploads, nextFile, corrupt, ops,
                 muteBeforeSolo,
                 pausedAt>>

\* ---------------------------------------------------------- track handlers
\* Ids a handler can be called with: those of the rendered rows, and one
\* that matches no track.
HandlerIds == {rendered[k].id : k \in 1..nRendered} \union {UnknownId}

muteUpdater(prevTracks, trackId) ==
  \* prevTracks.map(track => ...)
  [k \in 1..Len(prevTracks) |->
     LET track == prevTracks[k]
     IN IF track.id = trackId
          THEN [track EXCEPT !.muted = ~track.muted]
          ELSE track
  ]

handleMute(trackId) ==
  /\ ops < MaxOps
  /\ ops' = ops + 1
  /\ tracks' = muteUpdater(tracks, trackId)
  /\ LET k == Find(rendered, trackId)
     IN nodes' = IF k # 0
                   THEN [nodes EXCEPT ![rendered[k].player].mute = ~rendered[k].muted]
                   ELSE nodes
  /\ Commit(tracks', nRendered)
  /\ muteBeforeSolo' = <<>>
  /\ UNCHANGED <<isPlaying, currentTime, transport, now, uploads, nextFile,
                 corrupt,
                 pausedAt>>

\* soloUpdater deciding hasSoloTrack on the tracks before the toggle
soloUpdater_stale(prevTracks, trackId) ==
  LET updatedTracks ==
        [k \in 1..Len(prevTracks) |->
           LET track == prevTracks[k]
           IN IF track.id = trackId
                THEN [track EXCEPT !.solo = ~track.solo]
                ELSE track]
  IN [k \in 1..Len(updatedTracks) |->
        LET track == updatedTracks[k]
        IN [track EXCEPT
              !.muted = IF hasSoloTrack(prevTracks)
                          THEN ~track.solo
                          ELSE track.muted]]

soloUpdater(prevTracks, trackId) ==
  LET updatedTracks ==
        [k \in 1..Len(prevTracks) |->
           LET track == prevTracks[k]
           IN IF track.id = trackId
                THEN [track EXCEPT !.solo = ~track.solo]
                ELSE track]
  IN [k \in 1..Len(updatedTracks) |->
        LET track == updatedTracks[k]
        IN [track EXCEPT
              !.muted = IF hasSoloTrack(updatedTracks)
                          THEN ~track.solo
                          ELSE track.muted]]

handleSolo(trackId) ==
  /\ ops < MaxOps
  /\ ops' = ops + 1
  /\ tracks' = soloUpdater(tracks, trackId)
  /\ Commit(tracks', nRendered)
  /\ muteBeforeSolo' =
       IF ~hasSoloTrack(tracks) /\ hasSoloTrack(tracks')
         THEN [k \in 1..Len(tracks) |-> tracks[k].muted]
         ELSE muteBeforeSolo
  /\ UNCHANGED <<isPlaying, currentTime, nodes, transport, now, uploads,
                 nextFile, corrupt,
                 pausedAt>>

volumeUpdater(prevTracks, trackId, volume) ==
  \* prevTracks.map(track => ...)
  [k \in 1..Len(prevTracks) |->
     LET track == prevTracks[k]
     IN IF track.id = trackId
          THEN [track EXCEPT !.volume = volume]
          ELSE track
  ]

handleVolumeChange(trackId, volume) ==
  /\ ops < MaxOps
  /\ ops' = ops + 1
  /\ tracks' = volumeUpdater(tracks, trackId, volume)
  /\ LET k == Find(rendered, trackId)
     IN nodes' = IF k # 0
                   THEN [nodes EXCEPT ![rendered[k].player].volume = volume]
                   ELSE nodes
  /\ Commit(tracks', nRendered)
  /\ UNCHANGED <<isPlaying, currentTime, transport, now, uploads, nextFile,
                 corrupt, muteBeforeSolo,
                 pausedAt>>

panUpdater(prevTracks, trackId, pan) ==
  \* prevTracks.map(track => ...)
  [k \in 1..Len(prevTracks) |->
     LET track == prevTracks[k]
     IN IF track.id = trackId
          THEN [track EXCEPT !.pan = pan]
          ELSE track
  ]

handlePanChange(trackId, pan) ==
  /\ ops < MaxOps
  /\ ops' = ops + 1
  /\ tracks' = panUpdater(tracks, trackId, pan)
  /\ LET k == Find(rendered, trackId)
     IN nodes' = IF k # 0
                   THEN [nodes EXCEPT ![rendered[k].player].pan = pan]
                   ELSE nodes
  /\ Commit(tracks', nRendered)
  /\ UNCHANGED <<isPlaying, currentTime, transport, now, uploads, nextFile,
                 corrupt, muteBeforeSolo,
                 pausedAt>>

pitchUpdater(prevTracks, trackId, pitch) ==
  \* prevTracks.map(track => ...)
  [k \in 1..Len(prevTracks) |->
     LET track == prevTracks[k]
     IN IF track.id = trackId
          THEN [track EXCEPT !.pitch = pitch]
          ELSE track
  ]

handlePitchChange(trackId, pitch) ==
  /\ ops < MaxOps
  /\ ops' = ops + 1
  /\ tracks' = pitchUpdater(tracks, trackId, pitch)
  /\ LET k == Find(rendered, trackId)
     IN nodes' = IF k # 0
                   THEN [nodes EXCEPT ![rendered[k].player].pitch = pitch]
                   ELSE nodes
  /\ Commit(tracks', nRendered)
  /\ UNCHANGED <<isPlaying, currentTime, transport, now, uploads, nextFile,
                 corrupt, muteBeforeSolo,
                 pausedAt>>

Next ==
  \/ \E n \in 0..MaxFiles, bad \in SUBSET (1..MaxFiles) : handleFileUpload(n, bad)
  \/ \E u \in 1..MaxUploads : arrayBufferResolved(u)
  \/ \E u \in 1..MaxUploads : decodeResolved(u)
  \/ \E u \in 1..MaxUploads : decodeRejected(u)
  \/ Render
  \/ Tick
  \/ togglePlayPause
  \/ ClockAdvance
  \/ intervalTick
  \/ \E trackId \in HandlerIds : handleMute(trackId)
  \/ \E trackId \in HandlerIds : handleSolo(trackId)
  \/ \E trackId \in HandlerIds, volume \in VolumeInputs : handleVolumeChange(trackId, volume)
  \/ \E trackId \in HandlerIds, pan \in PanInputs : handlePanChange(trackId, pan)
  \/ \E trackId \in HandlerIds, pitch \in PitchInputs : handlePitchChange(trackId, pitch)

Spec == Init /\ [][Next]_vars

\* The steps that read or write the transport, the players and isPlaying.
TransportNext ==
  \/ \E n \in 0..MaxFiles, bad \in SUBSET (1..MaxFiles) : handleFileUpload(n, bad)
  \/ \E u \in 1..MaxUploads : arrayBufferResolved(u)
  \/ \E u \in 1..MaxUploads : decodeResolved(u)
  \/ \E u \in 1..MaxUploads : decodeRejected(u)
  \/ Render
  \/ togglePlayPause
  \/ ClockAdvance
  \/ intervalTick

TransportSpec == Init /\ [][TransportNext]_vars

\* The steps that read or write the registry: ingestion, render and the
\* track handlers, with every track created within one millisecond.
RegistryNext ==
  \/ \E n \in 0..MaxFiles, bad \in SUBSET (1..MaxFiles) : handleFileUpload(n, bad)
  \/ \E u \in 1..MaxUploads : arrayBufferResolved(u)
  \/ \E u \in 1..MaxUploads : decodeResolved(u)
  \/ \E u \in 1..MaxUploads : decodeRejected(u)
  \/ Render
  \/ \E trackId \in HandlerIds : handleMute(trackId)
  \/ \E trackId \in HandlerIds : handleSolo(trackId)
  \/ \E trackId \in HandlerIds, volume \in VolumeInputs : handleVolumeChange(trackId, volume)
  \/ \E trackId \in HandlerIds, pan \in PanInputs : handlePanChange(trackId, pan)
  \/ \E trackId \in HandlerIds, pitch \in PitchInputs : handlePitchChange(trackId, pitch)

RegistrySpec == Init /\ [][RegistryNext]_vars

\* Ingestion alone: the upload continuations, the render and the clock the
\* ids are made from.
IngestNext ==
  \/ \E n \in 0..MaxFiles, bad \in SUBSET (1..MaxFiles) : handleFileUpload(n, bad)
  \/ \E u \in 1..MaxUploads : arrayBufferResolved(u)
  \/ \E u \in 1..MaxUploads : decodeResolved(u)
  \/ \E u \in 1..MaxUploads : decodeRejected(u)
  \/ Render
  \/ Tick

IngestSpec == Init /\ [][IngestNext]_vars

\* Ingestion with the mute and solo buttons.
MuteSoloNext ==
  \/ \E n \in 0..MaxFiles, bad \in SUBSET (1..MaxFiles) : handleFileUpload(n, bad)
  \/ \E u \in 1..MaxUploads : arrayBufferResolved(u)
  \/ \E u \in 1..MaxUploads : decodeResolved(u)
  \/ \E u \in 1..MaxUploads : decodeRejected(u)
  \/ Render
  \/ Tick
  \/ \E trackId \in HandlerIds : handleMute(trackId)
  \/ \E trackId \in HandlerIds : handleSolo(trackId)

MuteSoloSpec == Init /\ [][MuteSoloNext]_vars

\* Ingestion, render and the two handlers whose updaters rewrite every
\* track, with every pending promise of an upload eventually settled: the
\* browser resolves file.arrayBuffer() and decodeAudioData and runs the
\* continuation.
UploadNext ==
  \/ \E n \in 0..MaxFiles, bad \in SUBSET (1..MaxFiles) : handleFileUpload(n, bad)
  \/ \E u \in 1..MaxUploads : arrayBufferResolved(u)
  \/ \E u \in 1..MaxUploads : decodeResolved(u)
  \/ \E u \in 1..MaxUploads : decodeRejected(u)
  \/ Render
  \/ \E id \in HandlerIds : handleMute(id)
  \/ \E id \in HandlerIds : handleSolo(id)

FairUploadSpec ==
  /\ Init /\ [][UploadNext]_vars
  /\ \A u \in 1..MaxUploads :
       /\ WF_vars(arrayBufferResolved(u))
       /\ WF_vars(decodeResolved(u))

\* The transport steps with the polling timer firing again and again: the
\* interval set up on mount is never cleared while the component is mounted.
FairTransportSpec == Init /\ [][TransportNext]_vars /\ WF_vars(intervalTick)

\* ------------------------------------------------------------------ claims
NodeOf(track) == nodes[track.player]

\* C1: once a sequence of handleSolo calls leaves no track soloed, every
\* track's muted flag equals the value it had immediately before the first
\* solo was turned on.
C1_SoloRestoresMute ==
  (muteBeforeSolo # <<>> /\ ~hasSoloTrack(tracks)) =>
    \A k \in 1..Len(tracks) : tracks[k].muted = muteBeforeSolo[k]

\* C2: whenever some track is soloed, every non-soloed track's player is
\* muted and every soloed track's player mute equals its own muted field.
C2_EffectiveMuteUnderSolo ==
  hasSoloTrack(tracks) =>
    \A k \in 1..Len(tracks) :
      IF tracks[k].solo
        THEN NodeOf(tracks[k]).mute = tracks[k].muted
        ELSE NodeOf(tracks[k]).mute = TRUE

\* C3: track ids are unique within the registry in every reachable state.
C3_UniqueIds ==
  \A j, k \in 1..Len(tracks) : j # k => tracks[j].id # tracks[k].id

\* C4: each file of an upload is ingested independently: once an upload has
\* ended, every file of it that decodes is a track, the tracks of the upload
\* are in file order, and one decode error is reported per undecodable file.
UploadFiles(u) == (uploads[u].first + 1)..(uploads[u].first + uploads[u].n)
UploadEnded(u) == uploads[u].pc \in {"done", "rejected"}
ReportedErrors(u) == IF uploads[u].pc = "rejected" THEN 1 ELSE 0

C4_IndependentIngestion ==
  \A u \in 1..Len(uploads) :
    UploadEnded(u) =>
      /\ \A f \in UploadFiles(u) \ corrupt :
           \E k \in 1..Len(tracks) : tracks[k].blob = f
      /\ \A j, k \in 1..Len(tracks) :
           (j < k /\ tracks[j].blob \in UploadFiles(u)
                  /\ tracks[k].blob \in UploadFiles(u))
             => tracks[j].blob < tracks[k].blob
      /\ ReportedErrors(u) = Cardinality(UploadFiles(u) \cap corrupt)

\* C5: every track's stored volume is in [-60, 0], pan in [-1, 1] and pitch
\* in [-12, 12], whatever values the setters were called with.
C5_ClampedControls ==
  \A k \in 1..Len(tracks) :
    /\ VolumeMin <= tracks[k].volume /\ tracks[k].volume <= VolumeMax
    /\ PanMin <= tracks[k].pan /\ tracks[k].pan <= PanMax
    /\ PitchMin <= tracks[k].pitch /\ tracks[k].pitch <= PitchMax

\* C6: each track's player.mute equals the track's muted flag in the
\* registry.
C6_PlayerMuteMirrorsRegistry ==
  \A k \in 1..Len(tracks) : NodeOf(tracks[k]).mute = tracks[k].muted

\* C7: a track's stored volume / pan / pitch and its node parameters both
\* equal the value issued last for that field (0 if none was issued): after
\* a setter call both hold the issued value, and they agree in every state.
C7_LastValueWins ==
  /\ [](\A k \in 1..Len(tracks) :
          /\ NodeOf(tracks[k]).volume = tracks[k].volume
          /\ NodeOf(tracks[k]).pan = tracks[k].pan
          /\ NodeOf(tracks[k]).pitch = tracks[k].pitch)
  /\ [][\A k \in 1..Len(tracks) :
          /\ \A v \in VolumeInputs :
               handleVolumeChange(tracks[k].id, v) =>
                 tracks'[k].volume = v /\ nodes'[tracks[k].player].volume = v
          /\ \A v \in PanInputs :
               handlePanChange(tracks[k].id, v) =>
                 tracks'[k].pan = v /\ nodes'[tracks[k].player].pan = v
          /\ \A v \in PitchInputs :
               handlePitchChange(tracks[k].id, v) =>
                 tracks'[k].pitch = v /\ nodes'[tracks[k].player].pitch = v]_vars

\* C8: WaveSurfer.create / loadBlob run exactly once for each track of the
\* registry, however often the tracks effect re-runs: no track has two
\* views, and every track the effect has visited has one.
ViewsOf(track) == {w \in 1..Len(waveSurfers) : waveSurfers[w].blob = track.blob}

C8_OneViewPerTrack ==
  \A k \in 1..Len(tracks) :
    /\ Cardinality(ViewsOf(tracks[k])) <= 1
    /\ k <= nRendered => Cardinality(ViewsOf(tracks[k])) = 1

\* C9: the transport's elapsed time never decreases while Playing, is
\* constant while Paused, and a Paused-to-Playing toggle resumes from the
\* frozen value.
C9_ElapsedTime ==
  [][/\ transport.state = "started" => transport'.seconds >= transport.seconds
     /\ transport.state = "paused" => transport'.seconds = transport.seconds
     /\ (transport.state = "paused" /\ transport'.state = "started")
          => (togglePlayPause /\ transport'.seconds = pausedAt)]_vars

\* A paused clock frozen at 1 was resumed and has since run on to 2.
C9_Witness ==
  /\ transport.state = "started"
  /\ pausedAt = 1
  /\ transport.seconds = 2

\* C10: the transport changes state only by togglePlayPause; a toggle from
\* Stopped or Paused reaches Playing, a toggle from Playing reaches Paused,
\* Stopped is never re-entered, and isPlaying is true exactly when the
\* transport is Playing.
C10_TransportMachine ==
  /\ [](isPlaying <=> transport.state = "started")
  /\ [][/\ transport'.state # transport.state => togglePlayPause
        /\ togglePlayPause =>
             IF transport.state = "started"
               THEN transport'.state = "paused"
               ELSE transport'.state = "started"
        /\ transport'.state = "stopped" => transport.state = "stopped"]_vars

\* The transport was started, paused, and sits Paused with the Play button
\* showing.
C10_Witness ==
  /\ transport.state = "paused"
  /\ ~isPlaying
  /\ pausedAt = transport.seconds
  /\ \E f \in DOMAIN nodes : nodes[f].started
\* C11: a track's source is started by nothing but a togglePlayPause that
\* starts the transport (so a track ingested while Playing stays unstarted
\* until then), and every such toggle issues start() to every track in the
\* registry at that moment.
StartingToggle == togglePlayPause /\ ~isPlaying

C12_SourcesInLockstep ==
  /\ [](\A f \in DOMAIN nodes :
          nodes[f].started => transport.state = "started")
  /\ [][StartingToggle =>
          \A k \in 1..nRendered : ~nodes[rendered[k].player].started]_vars
\* C13: when the decode of a file fails, no track for that file is appended
\* and the tracks (and nodes) already there are left as they were: no track
\* of the registry ever holds an undecodable file.
C13_NoPartialTrack ==
  /\ [](\A k \in 1..Len(tracks) : tracks[k].blob \notin corrupt)
  /\ [][\A u \in 1..Len(uploads) :
          (uploads[u].pc # "rejected" /\ uploads'[u].pc = "rejected")
            => (tracks' = tracks /\ nodes' = nodes)]_vars

\* An upload whose second file failed to decode, its first file a track.
C13_Witness ==
  \E u \in 1..Len(uploads) :
    /\ uploads[u].pc = "rejected"
    /\ uploads[u].i >= 1
    /\ \E k \in 1..Len(tracks) : tracks[k].blob = uploads[u].first + 1
\* C14: the mute recomputation is atomic with the solo change: in the state
\* right after any step that changes a solo flag, the registry's mute flags
\* and the players' mute are already those of the new solo set.
SoloChanged ==
  \E k \in 1..Len(tracks) : tracks'[k].solo # tracks[k].solo

C14_AtomicSoloRecompute ==
  [][SoloChanged =>
       \A k \in 1..Len(tracks') :
         /\ hasSoloTrack(tracks') => tracks'[k].muted = ~tracks'[k].solo
         /\ nodes'[tracks'[k].player].mute = tracks'[k].muted]_vars
\* C15: handleMute / handleVolumeChange / handlePanChange / handlePitchChange
\* called for a track change the one named field of that track and nothing
\* else: not another field, not another track or its nodes, not the order,
\* not the transport; called with an id no track has they change neither
\* the registry nor a node.
OthersUntouched(k) ==
  /\ Len(tracks') = Len(tracks)
  /\ \A j \in 1..Len(tracks) :
       j # k => /\ tracks'[j] = tracks[j]
                /\ nodes'[tracks[j].player] = nodes[tracks[j].player]
  /\ transport' = transport
  /\ isPlaying' = isPlaying

C15_HandlersFrame ==
  [][/\ \A k \in 1..Len(tracks) :
          /\ handleMute(tracks[k].id) =>
               /\ OthersUntouched(k)
               /\ tracks'[k] = [tracks[k] EXCEPT !.muted = ~tracks[k].muted]
          /\ \A v \in VolumeInputs :
               handleVolumeChange(tracks[k].id, v) =>
                 /\ OthersUntouched(k)
                 /\ tracks'[k] = [tracks[k] EXCEPT !.volume = v]
          /\ \A v \in PanInputs :
               handlePanChange(tracks[k].id, v) =>
                 /\ OthersUntouched(k)
                 /\ tracks'[k] = [tracks[k] EXCEPT !.pan = v]
          /\ \A v \in PitchInputs :
               handlePitchChange(tracks[k].id, v) =>
                 /\ OthersUntouched(k)
                 /\ tracks'[k] = [tracks[k] EXCEPT !.pitch = v]
     /\ ( \/ handleMute(UnknownId)
          \/ \E v \in VolumeInputs : handleVolumeChange(UnknownId, v)
          \/ \E v \in PanInputs : handlePanChange(UnknownId, v)
          \/ \E v \in PitchInputs : handlePitchChange(UnknownId, v) )
          => (tracks' = tracks /\ nodes' = nodes)]_vars
AllDecodable(u) == UploadFiles(u) \cap corrupt = {}
TracksOfFile(f) == {k \in 1..Len(tracks) : tracks[k].blob = f}

C17_UploadCompletes ==
  /\ \A u \in 1..MaxUploads :
       (u <= Len(uploads) /\ AllDecodable(u))
         ~> (u <= Len(uploads) /\ uploads[u].pc = "done")
  /\ [](\A u \in 1..Len(uploads) :
          uploads[u].pc = "done" =>
            /\ \A f \in UploadFiles(u) : Cardinality(TracksOfFile(f)) = 1
            /\ Cardinality({k \in 1..Len(tracks) : tracks[k].blob \in UploadFiles(u)})
                 = uploads[u].n)
  /\ [][\A u \in 1..Len(uploads) :
          decodeResolved(u) =>
            LET t == tracks'[Len(tracks')]
            IN /\ ~t.muted /\ ~t.solo
               /\ t.volume = 0 /\ t.pan = 0 /\ t.pitch = 0]_vars

\* An upload of two files has completed, a track handler has run, and one
\* of the upload's tracks is not rendered yet.
C17_Witness ==
  \E u \in 1..Len(uploads) :
    /\ uploads[u].pc = "done" /\ uploads[u].n = 2
    /\ ops >= 1
    /\ \E k \in 1..Len(tracks) : tracks[k].blob \in UploadFiles(u) /\ k > nRendered
\* C18: while the transport stays paused or stopped the displayed
\* currentTime eventually equals the transport's seconds and then stays
\* equal as long as the transport is not started; currentTime only ever
\* changes to the value the transport clock holds at that moment.
C18_DisplayedTimeConverges ==
  /\ (transport.state # "started")
       ~> (currentTime = transport.seconds \/ transport.state = "started")
  /\ [][(/\ transport.state # "started"
         /\ transport'.state # "started"
         /\ currentTime = transport.seconds) => currentTime' = transport'.seconds]_vars
  /\ [][currentTime' # currentTime => currentTime' = transport.seconds]_vars
  /\ [](currentTime \in 0..transport.seconds)

\* The transport was paused at 2 seconds and the display has caught up.
C18_Witness ==
  /\ transport.state = "paused"
  /\ transport.seconds = 2
  /\ currentTime = 2

\* C19: a handleSolo call that leaves some track soloed leaves every track
\* with muted equal to the negation of its solo flag; a handleSolo call that
\* leaves no track soloed leaves every muted flag as it was before the call.
C19_SoloRecomputesMute ==
  [][\A id \in HandlerIds :
       handleSolo(id) =>
         /\ Len(tracks') = Len(tracks)
         /\ IF hasSoloTrack(tracks')
              THEN \A k \in 1..Len(tracks') : tracks'[k].muted = ~tracks'[k].solo
              ELSE \A k \in 1..Len(tracks') : tracks'[k].muted = tracks[k].muted]_vars

\* A solo is active that overrode a mute flag: some track's muted differs
\* from what it was when the solo set became non-empty.
C19_Witness ==
  /\ hasSoloTrack(tracks)
  /\ Len(muteBeforeSolo) = Len(tracks)
  /\ \E k \in 1..Len(tracks) : tracks[k].muted # muteBeforeSolo[k]
  /\ \A k \in 1..Len(tracks) : tracks[k].muted = ~tracks[k].solo
====
